---- MODULE Spec2Model ----
(***************************************************************************)
(* The two GeminiLiveOfficial model-session wrappers of the repository:    *)
(*   "server" : packages/server/src/gemini-live-official.js                *)
(*   "queue"  : the responseQueue-based wrapper (unnamed/part_003)         *)
(* One wrapper object, its caller, the @google/genai transport it drives   *)
(* and the model behind it.  The transport library is not part of the      *)
(* repository: the order in which it fires onopen and resolves the         *)
(* connect() promise is left open (the repository's own pipeline test,     *)
(* unnamed/part_006 lines 71-81 and 106-109, waits for the open event      *)
(* after connect() has resolved), and a send on a session may return or    *)
(* throw (every send of the wrappers sits in a try/catch).                 *)
(*                                                                         *)
(* The caller's sends touch session, isConnected and the transport; the    *)
(* messages of the model touch responseQueue, the conversation loop and    *)
(* onServerContent.  The two sides meet only in onopen (the greeting and   *)
(* the start of the loop), so they are checked under two specifications    *)
(* over the same connection life cycle: SpecSend (the caller sends, the    *)
(* model sends control messages) and SpecRecv (the model sends content).   *)
(***************************************************************************)
EXTENDS Integers, Sequences, FiniteSets, TLC

\* Bounds of the model.
MaxConnects == 1   \* connect() calls made on one wrapper object
MaxMsgs == 3       \* content messages received (SpecRecv)
MaxCtl == 1        \* control messages received (SpecSend)
MaxSends == 2      \* send calls made by the caller
MaxCalls == 2      \* rows of call_logs
QueueBound == 2    \* the configured bound of responseQueue, scaled down from 200
MaxTime == 2       \* clock ticks (half seconds)
MaxSockets == 6    \* WebSocket objects created by RealtimeService
MaxSubs == 2       \* subscribeToCallUpdates() calls
MaxEvents == 2     \* notifications dispatched to the subscribers
MaxNotes == 3      \* notifications handled by the dashboard

VARIABLES
    impl,           \* which wrapper class the object is
    session,        \* this.session / this.geminiSession: 0 is null, else the connection
    isConnected,    \* this.isConnected (queue wrapper only)
    consumer,       \* this.onServerContent is set
    responseQueue,  \* this.responseQueue (queue wrapper only)
    loops,          \* the startConversationLoop() calls: position and local `turns`
    ws,             \* transport state of each connection
    openFired,      \* connections whose onopen callback has run
    connectRet,     \* outcome of each connect() call
    wire,           \* what has been handed to the transport for the model, in order
    upstream,       \* the invocations of onServerContent, in order
    received,       \* the server messages received, in order
    calls,          \* the caller's send calls and their return values, in order
    staleAudio,     \* audio that sat in responseQueue when an interruption arrived
    lost,           \* the last unsolicited close while the call was active
    callClosed,     \* the caller has called close()
    options,        \* this.options: what the constructor was given
    connectArgs,    \* what ai.live.connect() was called with, per connection
    call_logs,      \* the call_logs table: one row per call
    now,            \* the clock, in half seconds
    bridges,        \* calls whose model session and carrier session are open
    environ,        \* the root .env file and the process environment
    script,         \* the run of start-ai-call-center.js
    demo,           \* the demo-server.js process
    wsConnection,   \* RealtimeService.wsConnection: 0 is null, else the socket
    isConnecting,   \* RealtimeService.isConnecting
    reconnectAttempts, \* RealtimeService.reconnectAttempts
    subscriptions,  \* RealtimeService.subscriptions: the callbacks of each type
    sockets,        \* state of each WebSocket object created so far
    timers,         \* the pending setTimeout callbacks of attemptReconnect
    pollers,        \* the setInterval pollers started by fallbackToPolling
    urlValid,       \* whether `new WebSocket(wsUrl)` is accepted by the browser
    scheduled,      \* reconnects scheduled since the last successful open
    disconnected,   \* disconnect() was called and no subscribe call since
    subState,       \* each subscribeToCallUpdates() call: its handle's state
    notified,       \* the callbacks invoked by the notifications, in order
    metrics         \* the dashboard's metrics state

\* The call records, the start-up scripts and the dashboard's RealtimeService:
\* untouched by the session wrapper.
uiVars == <<wsConnection, isConnecting, reconnectAttempts, subscriptions, sockets, timers,
            pollers, urlValid, scheduled, disconnected, subState, notified, metrics>>
sideVars == <<options, call_logs, now, bridges, environ, script, demo, uiVars>>

vars == <<impl, session, isConnected, consumer, responseQueue, loops, ws, openFired,
          connectRet, wire, upstream, received, calls, staleAudio, lost, callClosed,
          connectArgs, sideVars>>

Impls == {"server", "queue"}
Sockets == 1..MaxSockets
Subs == 1..MaxSubs
NotificationTypes == {"call_updates", "call_inserts", "call_deletes"}
Conns == 1..MaxConnects
ContentKinds == {"audio", "interrupted", "turnComplete"}
ControlKinds == {"toolCall", "goAway"}
CloseReasons == {"transient", "fatal"}

\* Number of connect() calls made so far.
nConn == Cardinality({c \in Conns : ws[c] # "none"})

----------------------------------------------------------------------------
(* Messages.  A message is [kind, id, conn]: id is its position in the      *)
(* receive order and conn the connection it arrived on.                     *)

\* message.serverContent is present (part_003 line 81).
HasServerContent(m) == m.kind \in ContentKinds

\* An entry of `upstream`: one invocation of onServerContent.
Delivery(via, kind, id) == [via |-> via, kind |-> kind, id |-> id]

\* An entry of `wire`: one payload handed to the transport on a session.
Payload(sess, kind, val) == [sess |-> sess, kind |-> kind, val |-> val, id |-> 0]

----------------------------------------------------------------------------
(* Queue wrapper: message handling.                                         *)

\* handleInterruption(): logs only; the queue is left as it is.
handleInterruption(q) == q

\* A processMessage that handles an interruption itself and does not pass it on.
processMessageSwallowsInterrupted(m, up, cons) ==
    IF HasServerContent(m) /\ cons /\ m.kind # "interrupted"
    THEN Append(up, Delivery("processMessage", m.kind, m.id))
    ELSE up

\* processMessage(message): effect on the onServerContent invocations.
processMessage(m, up, cons) ==
    IF HasServerContent(m) /\ cons
    THEN Append(up, Delivery("processMessage", m.kind, m.id))
    ELSE up

\* handleAudioData(audioData): onServerContent?.({audioData, mimeType}).
handleAudioData(up, id, cons) ==
    IF cons THEN Append(up, Delivery("loop", "audio", id)) ELSE up

\* processConversationTurns(turns): handleAudioData for every audio part of every
\* turn's serverContent.modelTurn.parts, in the order of `turns`.
RECURSIVE processConversationTurns(_, _, _)
processConversationTurns(turns, up, cons) ==
    IF turns = <<>> THEN up
    ELSE LET t == Head(turns)
             up1 == IF t.kind = "audio" THEN handleAudioData(up, t.id, cons) ELSE up
         IN processConversationTurns(Tail(turns), up1, cons)

\* The server wrapper's onmessage: onServerContent(message.serverContent || message).
serverOnMessage(m, up, cons) ==
    IF cons THEN Append(up, Delivery("onmessage", m.kind, m.id)) ELSE up

----------------------------------------------------------------------------
(* Send guards.                                                             *)

\* A send guard that lets every call through.
serverReadyAlways(sess) == TRUE

\* server wrapper: if (!this.geminiSession) return false
serverReady(sess) == sess # 0

\* queue wrapper: if (!this.session || !this.isConnected) return false
queueReady(sess, conn) == sess # 0 /\ conn

Ready == IF impl = "server" THEN serverReady(session) ELSE queueReady(session, isConnected)

----------------------------------------------------------------------------
\* A value that was not given (undefined).
NoValue == "undefined"

(* Call records: the rows of call_logs.  -1 stands for NULL.                    *)

CallIds == 1..MaxCalls
Profiles == {"u1", "u2"}
Terminal == {"completed", "failed", "abandoned"}

\* A row that has not been inserted yet.
NoRow ==
    [profile_id |-> "", status |-> "none", started_at |-> -1, ended_at |-> -1,
     duration_seconds |-> -1, outcome |-> ""]

\* Position of a status in Pending -> Ringing -> InProgress -> terminal.
Rank(st) ==
    CASE st = "none" -> 0
      [] st = "pending" -> 1
      [] st = "ringing" -> 2
      [] st = "in_progress" -> 3
      [] OTHER -> 4

----------------------------------------------------------------------------
(* Start-up: the environment start-ai-call-center.js is run in.              *)

RequiredVars == {"SUPABASE_URL", "SUPABASE_ANON_KEY", "GEMINI_API_KEY", "TWILIO_ACCOUNT_SID"}

\* Values of a variable after dotenv.config(): unset, the template value of the
\* printed .env sample, the word placeholder, a real credential.
EnvValues == {NoValue, "your_value", "placeholder", "real"}

\* process.env[varName].includes('your_')
includesYour(v) == v = "your_value"

\* No script has been launched.
NoEnviron == [file |-> FALSE, vars |-> [v \in RequiredVars |-> NoValue]]
NotStarted == [pc |-> "idle", envLocal |-> FALSE, phase |-> 0, exit |-> "none"]
DemoStopped == [state |-> "stopped", signal |-> "none", exit |-> "none"]

\* main() runs phases 1 to 12.
LastPhase == 12

----------------------------------------------------------------------------
(* Configuration.  options holds the four fields the claims speak of: model,  *)
(* speechConfig's voiceName, and the start/end sensitivity strings of         *)
(* realtimeInputConfig.automaticActivityDetection.  NoValue is `undefined`.   *)

\* The models the profiles.gemini_model check constraint admits.
AllowedModels ==
    {"gemini-live-2.5-flash-preview", "gemini-2.0-flash-live-001",
     "gemini-2.5-flash-preview-native-audio-dialog"}

\* The column default of profiles.gemini_model.
DocumentedDefaultModel == "gemini-2.5-flash-preview-native-audio-dialog"

\* convertRealtimeInputConfig, start sensitivity: the three known strings become
\* members of the StartSensitivity enum; anything else is left as it is.
convertStartSensitivity(s) ==
    IF s = "START_SENSITIVITY_LOW" THEN "StartSensitivity.START_SENSITIVITY_LOW"
    ELSE IF s = "START_SENSITIVITY_MEDIUM" THEN "StartSensitivity.START_SENSITIVITY_MEDIUM"
    ELSE IF s = "START_SENSITIVITY_HIGH" THEN "StartSensitivity.START_SENSITIVITY_HIGH"
    ELSE s

\* convertRealtimeInputConfig, end sensitivity.
convertEndSensitivity(s) ==
    IF s = "END_SENSITIVITY_LOW" THEN "EndSensitivity.END_SENSITIVITY_LOW"
    ELSE IF s = "END_SENSITIVITY_MEDIUM" THEN "EndSensitivity.END_SENSITIVITY_MEDIUM"
    ELSE IF s = "END_SENSITIVITY_HIGH" THEN "EndSensitivity.END_SENSITIVITY_HIGH"
    ELSE s

\* convertRealtimeInputConfig(config) on the two sensitivity fields.
convertRealtimeInputConfig(opts) ==
    [start |-> convertStartSensitivity(opts.start), end |-> convertEndSensitivity(opts.end)]

\* queue wrapper: model, speechConfig and the converted realtimeInputConfig are
\* passed to ai.live.connect() as the options hold them.
queueConnectArgs(opts) ==
    [model |-> opts.model, voice |-> opts.voice,
     start |-> convertRealtimeInputConfig(opts).start,
     end |-> convertRealtimeInputConfig(opts).end]

\* server wrapper: options.model || 'gemini-live-2.5-flash-preview',
\* options.speechConfig || {voiceName: "default"}; no realtimeInputConfig is passed.
serverConnectArgs(opts) ==
    [model |-> IF opts.model = NoValue THEN "gemini-live-2.5-flash-preview" ELSE opts.model,
     voice |-> IF opts.voice = NoValue THEN "default" ELSE opts.voice,
     start |-> NoValue, end |-> NoValue]

\* The options a caller may construct a wrapper with.
OptionChoices ==
    [model : AllowedModels \cup {"gemini-pro", NoValue},
     voice : {"Puck", "Nova", NoValue},
     start : {"START_SENSITIVITY_LOW", "START_SENSITIVITY_HIGH", "START_SENSITIVITY_MAX", NoValue},
     end : {"END_SENSITIVITY_MEDIUM", "END_SENSITIVITY_MAX", NoValue}]

\* The configuration of the worked example: voice Puck on gemini-2.0-flash-live-001.
ExampleOptions ==
    [model |-> "gemini-2.0-flash-live-001", voice |-> "Puck",
     start |-> "START_SENSITIVITY_LOW", end |-> "END_SENSITIVITY_MEDIUM"]

\* connectArgs of a connection on which connect() has not been called.
NotCalled == [model |-> "", voice |-> "", start |-> "", end |-> ""]

----------------------------------------------------------------------------
\* No notification has been dispatched.
NoNotification == [count |-> 0, type |-> "", to |-> {}]

\* The metrics state of DashboardPage before loadDashboardData() has set it.
NoMetrics == [loaded |-> FALSE, activeCalls |-> 0, activeCallsList |-> <<>>, recentCalls |-> <<>>]

\* The static fields of RealtimeService when the module is loaded, with
\* nothing subscribed and the dashboard not loaded.
StaticFields ==
    /\ wsConnection = 0
    /\ isConnecting = FALSE
    /\ reconnectAttempts = 0
    /\ subscriptions = [t \in NotificationTypes |-> {}]
    /\ sockets = [k \in Sockets |-> "none"]
    /\ timers = <<>>
    /\ pollers = 0
    /\ scheduled = 0
    /\ disconnected = FALSE
    /\ subState = [k \in Subs |-> "none"]
    /\ notified = NoNotification
    /\ metrics = NoMetrics

\* new GeminiLiveOfficial(options): the wrapper after construction, with the
\* call records empty and no script started.  The page is served from an
\* origin from which the WebSocket URL is, or is not, accepted.
Construct(opts) ==
    /\ StaticFields
    /\ impl \in Impls
    /\ session = 0
    /\ isConnected = FALSE
    /\ consumer \in BOOLEAN
    /\ responseQueue = <<>>
    /\ loops = [c \in Conns |-> [pc |-> "none", turns |-> <<>>]]
    /\ ws = [c \in Conns |-> "none"]
    /\ openFired = {}
    /\ connectRet = [c \in Conns |-> "none"]
    /\ wire = <<>>
    /\ upstream = <<>>
    /\ received = <<>>
    /\ calls = <<>>
    /\ staleAudio = {}
    /\ lost = [reason |-> "none", at |-> 0]
    /\ callClosed = FALSE
    /\ options = opts
    /\ connectArgs = [c \in Conns |-> NotCalled]
    /\ call_logs = [id \in CallIds |-> NoRow]
    /\ now = 0
    /\ bridges = {}
    /\ environ = NoEnviron
    /\ script = NotStarted
    /\ demo = DemoStopped

Init == Construct(ExampleOptions) /\ urlValid = TRUE

\* A wrapper constructed with any of the option choices.
InitConfig == \E opts \in OptionChoices : Construct(opts) /\ urlValid = TRUE

\* connect(): ai.live.connect({model, callbacks, config}) is called and awaited.
\* The caller connects at call start, and again once the connection is gone.
Connect ==
    /\ ~callClosed
    /\ nConn < MaxConnects
    /\ \A c \in Conns : ws[c] \in {"none", "closed"}
    /\ LET c == nConn + 1 IN
        /\ ws' = [ws EXCEPT ![c] = "connecting"]
        /\ connectRet' = [connectRet EXCEPT ![c] = "pending"]
        /\ wire' = Append(wire, Payload(c, "config", 0))
        /\ connectArgs' = [connectArgs EXCEPT ![c] =
                                IF impl = "server" THEN serverConnectArgs(options)
                                ELSE queueConnectArgs(options)]
    /\ UNCHANGED <<sideVars, impl, session, isConnected, consumer, responseQueue, loops, openFired,
                   upstream, received, calls, staleAudio, lost, callClosed>>

\* The awaited promise resolves: the session handle is assigned.
ConnectResolve(c) ==
    /\ connectRet[c] = "pending"
    /\ ws[c] \in {"connecting", "open"}
    /\ session' = c
    /\ connectRet' = [connectRet EXCEPT ![c] = "ok"]
    /\ UNCHANGED <<sideVars, connectArgs, impl, isConnected, consumer, responseQueue, loops, ws, openFired,
                   wire, upstream, received, calls, staleAudio, lost, callClosed>>

\* A connect() whose await rejects assigned the handle before the failure showed.
sessionAfterRejectEager(sess, c) == c

\* The handle after a connect() whose await rejects: the assignment
\* `this.session = await ai.live.connect(...)` never takes place.
sessionAfterReject(sess, c) == sess

\* The awaited promise rejects (setup failure): the catch block of connect().
\* server: onError(error); return false.  queue: throw error.
ConnectReject(c) ==
    /\ connectRet[c] = "pending"
    /\ ws[c] = "connecting"
    /\ ws' = [ws EXCEPT ![c] = "closed"]
    /\ session' = sessionAfterReject(session, c)
    /\ connectRet' = [connectRet EXCEPT ![c] = IF impl = "server" THEN "false" ELSE "throw"]
    /\ UNCHANGED <<sideVars, connectArgs, impl, isConnected, consumer, responseQueue, loops, openFired,
                   wire, upstream, received, calls, staleAudio, lost, callClosed>>

\* sendInitialGreeting(): this.session.sendClientContent({turns}) in a try/catch,
\* then startConversationLoop().  With no session the call throws and is caught.
greetingSent(sess, throws) == sess # 0 /\ ~throws

\* callbacks.onopen.
OnOpen(c) ==
    /\ ws[c] = "connecting"
    /\ connectRet[c] \in {"pending", "ok"}
    /\ ws' = [ws EXCEPT ![c] = "open"]
    /\ openFired' = openFired \cup {c}
    /\ IF impl = "server"
       THEN UNCHANGED <<isConnected, wire, loops>>
       ELSE /\ isConnected' = TRUE
            /\ \E throws \in BOOLEAN :
                IF greetingSent(session, throws)
                THEN /\ wire' = Append(wire, Payload(session, "greeting", 0))
                     /\ loops' = [loops EXCEPT ![c] = [pc |-> "waiting", turns |-> <<>>]]
                ELSE UNCHANGED <<wire, loops>>
    /\ UNCHANGED <<sideVars, connectArgs, impl, session, consumer, responseQueue, connectRet, upstream, received,
                   calls, staleAudio, lost, callClosed>>

\* Audio ids held in a queue of messages.
AudioIds(q) == {q[i].id : i \in {j \in DOMAIN q : q[j].kind = "audio"}}

\* callbacks.onmessage.
OnMessage(c, kind) ==
    /\ ws[c] = "open"
    /\ Len(received) < (IF kind \in ContentKinds THEN MaxMsgs ELSE MaxCtl)
    /\ LET m == [kind |-> kind, id |-> Len(received) + 1, conn |-> c] IN
        /\ received' = Append(received, m)
        /\ IF impl = "server"
           THEN /\ upstream' = serverOnMessage(m, upstream, consumer)
                /\ UNCHANGED <<responseQueue, staleAudio>>
           ELSE /\ responseQueue' =
                      IF kind = "interrupted"
                      THEN handleInterruption(Append(responseQueue, m))
                      ELSE Append(responseQueue, m)
                /\ upstream' = processMessage(m, upstream, consumer)
                /\ staleAudio' = IF kind = "interrupted"
                                 THEN staleAudio \cup AudioIds(responseQueue)
                                 ELSE staleAudio
    /\ UNCHANGED <<sideVars, connectArgs, impl, session, isConnected, consumer, loops, ws, openFired, connectRet,
                   wire, calls, lost, callClosed>>

\* callbacks.onerror.
OnError(c) ==
    /\ ws[c] \in {"connecting", "open"}
    /\ connectRet[c] = "ok"
    /\ ws' = [ws EXCEPT ![c] = "errored"]
    /\ isConnected' = IF impl = "queue" THEN FALSE ELSE isConnected
    /\ UNCHANGED <<sideVars, connectArgs, impl, session, consumer, responseQueue, loops, openFired, connectRet,
                   wire, upstream, received, calls, staleAudio, lost, callClosed>>

\* callbacks.onclose: after the caller's close() (ws is "closing") or unsolicited.
OnClose(c, reason) ==
    /\ \/ ws[c] \in {"open", "errored", "closing"}
       \/ ws[c] = "connecting" /\ connectRet[c] = "ok"
    /\ ws' = [ws EXCEPT ![c] = "closed"]
    /\ isConnected' = IF impl = "queue" THEN FALSE ELSE isConnected
    /\ lost' = IF ws[c] # "closing" /\ ~callClosed
               THEN [reason |-> reason, at |-> nConn]
               ELSE lost
    /\ UNCHANGED <<sideVars, connectArgs, impl, session, consumer, responseQueue, loops, openFired, connectRet,
                   wire, upstream, received, calls, staleAudio, callClosed>>

\* One wake-up of waitMessage() inside handleTurn() that finds a message: it is
\* shifted off responseQueue and pushed on `turns`; a turnComplete ends handleTurn()
\* and processConversationTurns(turns) runs.
LoopStep(c) ==
    /\ loops[c].pc = "waiting"
    /\ responseQueue # <<>>
    /\ LET m == Head(responseQueue)
           turns == Append(loops[c].turns, m) IN
        /\ responseQueue' = Tail(responseQueue)
        /\ IF m.kind = "turnComplete"
           THEN /\ loops' = [loops EXCEPT ![c] = [pc |-> "done", turns |-> <<>>]]
                /\ upstream' = processConversationTurns(turns, upstream, consumer)
           ELSE /\ loops' = [loops EXCEPT ![c] = [pc |-> "waiting", turns |-> turns]]
                /\ UNCHANGED upstream
    /\ UNCHANGED <<sideVars, connectArgs, impl, session, isConnected, consumer, ws, openFired, connectRet,
                   wire, received, calls, staleAudio, lost, callClosed>>

\* A guarded send: what the transport has been handed once the call is over.
sendWire(ready, throws, w, p) == IF ready /\ ~throws THEN Append(w, p) ELSE w

\* A send whose catch block reports success.
sendRetCatchTrue(ready, throws) == ready

\* A guarded send: the value returned (false from the guard and from the catch).
sendRet(ready, throws) == ready /\ ~throws

\* A send call of the caller, guarded and wrapped in try/catch.
Send(op) ==
    /\ Len(calls) < MaxSends
    /\ \E throws \in BOOLEAN :
        LET n == Len(calls) + 1 IN
        /\ wire' = sendWire(Ready, throws, wire, Payload(session, op, n))
        /\ calls' = Append(calls, [op |-> op, arg |-> n, ret |-> sendRet(Ready, throws)])
    /\ UNCHANGED <<sideVars, connectArgs, impl, session, isConnected, consumer, responseQueue, loops, ws,
                   openFired, connectRet, upstream, received, staleAudio, lost, callClosed>>

\* sendAudio(base64AudioChunk) / sendRealtimeInput(input).
SendAudio == Send("audio")

\* sendText(text) of the server wrapper.
SendText ==
    /\ impl = "server"
    /\ Send("text")

\* sendAudioStreamEnd() of the server wrapper.
SendAudioStreamEnd ==
    /\ impl = "server"
    /\ Send("audioStreamEnd")

\* A tool call the consumer has been handed and may answer.
ToolCallsSeen == {i \in DOMAIN upstream : upstream[i].kind = "toolCall"}

\* sendFunctionResponse(functionName, response) of the server wrapper: the turn it
\* sends holds {name, response}; the caller answers a tool call it was handed.
SendFunctionResponse ==
    /\ impl = "server"
    /\ ToolCallsSeen # {}
    /\ Send("functionResponse")

\* close().  server: try { close() } catch {} finally { geminiSession = null }.
\* queue: session.close(); session = null; then isConnected = false (a throwing
\* close() leaves both as they were).
Close ==
    /\ \E throws \in BOOLEAN :
        /\ IF session # 0 /\ ~throws /\ ws[session] \in {"connecting", "open", "errored"}
           THEN ws' = [ws EXCEPT ![session] = "closing"]
           ELSE UNCHANGED ws
        /\ IF impl = "server"
           THEN /\ session' = 0
                /\ UNCHANGED isConnected
           ELSE IF session # 0 /\ throws
                THEN UNCHANGED <<session, isConnected>>
                ELSE /\ session' = 0
                     /\ isConnected' = FALSE
    /\ callClosed' = TRUE
    /\ UNCHANGED <<sideVars, connectArgs, impl, consumer, responseQueue, loops, openFired, connectRet, wire,
                   upstream, received, calls, staleAudio, lost>>

----------------------------------------------------------------------------
(* Call records.  The dashboard's emergency stop is an UPDATE of call_logs;   *)
(* the orchestrator and the lifecycle recorder that create, advance and       *)
(* finalize a call follow the call state machine and finalize().              *)

wrapperVars == <<impl, session, isConnected, consumer, responseQueue, loops, ws, openFired,
                 connectRet, wire, upstream, received, calls, staleAudio, lost, callClosed,
                 connectArgs, options>>
startVars == <<environ, script, demo>>
recordVars == <<call_logs, now, bridges>>

\* Math.round of a duration given in half seconds, in whole seconds.
RoundSeconds(d) == (d + 1) \div 2

\* getActiveCalls: Math.floor((now - started_at) / 1000), computed on read.
activeDuration(row, at) == (at - row.started_at) \div 2

\* An emergency stop whose UPDATE is not restricted to in-progress rows.
emergencyStopAnyStatus(rows, userId, at) ==
    [id \in CallIds |->
        IF rows[id].profile_id = userId
        THEN [rows[id] EXCEPT !.status = "failed", !.ended_at = at, !.outcome = "Emergency stop"]
        ELSE rows[id]]

\* An emergency stop whose UPDATE leaves ended_at out.
emergencyStopNoEndedAt(rows, userId, at) ==
    [id \in CallIds |->
        IF rows[id].profile_id = userId /\ rows[id].status = "in_progress"
        THEN [rows[id] EXCEPT !.status = "failed", !.outcome = "Emergency stop"]
        ELSE rows[id]]

\* emergencyStopAllCalls(userId): UPDATE call_logs SET status = 'failed',
\* ended_at = now, outcome = 'Emergency stop'
\* WHERE profile_id = userId AND status = 'in_progress'.
emergencyStopAllCalls(rows, userId, at) ==
    [id \in CallIds |->
        IF rows[id].profile_id = userId /\ rows[id].status = "in_progress"
        THEN [rows[id] EXCEPT !.status = "failed", !.ended_at = at, !.outcome = "Emergency stop"]
        ELSE rows[id]]

\* handleEmergencyStop -> ApiService.emergencyStopAllCalls(user.id).
EmergencyStop(userId) ==
    /\ call_logs' = emergencyStopAllCalls(call_logs, userId, now)
    /\ UNCHANGED <<wrapperVars, uiVars, startVars, now, bridges>>

\* finalize(call_id, terminal_state): a no-op on a record that is terminal.
finalize(rows, id, st, reason, at) ==
    IF rows[id].status \in Terminal THEN rows
    ELSE [rows EXCEPT ![id] =
            [@ EXCEPT !.status = st, !.ended_at = at, !.outcome = reason,
                      !.duration_seconds = RoundSeconds(at - rows[id].started_at)]]

\* A carrier session begins: the call is created, Pending.
CallCreate(id, p) ==
    /\ call_logs[id].status = "none"
    /\ \A j \in CallIds : j < id => call_logs[j].status # "none"
    /\ call_logs' = [call_logs EXCEPT ![id] =
            [NoRow EXCEPT !.profile_id = p, !.status = "pending", !.started_at = now]]
    /\ UNCHANGED <<wrapperVars, uiVars, startVars, now, bridges>>

\* Pending -> Ringing: the carrier emits Connected.
CallRing(id) ==
    /\ call_logs[id].status = "pending"
    /\ call_logs' = [call_logs EXCEPT ![id].status = "ringing"]
    /\ UNCHANGED <<wrapperVars, uiVars, startVars, now, bridges>>

\* Ringing -> InProgress: carrier Start and model acknowledgement; both sessions
\* of the call are open from here on.
CallStart(id) ==
    /\ call_logs[id].status = "ringing"
    /\ call_logs' = [call_logs EXCEPT ![id].status = "in_progress"]
    /\ bridges' = bridges \cup {id}
    /\ UNCHANGED <<wrapperVars, uiVars, startVars, now>>

\* Ringing -> Failed(setup_timeout).
CallSetupTimeout(id) ==
    /\ call_logs[id].status = "ringing"
    /\ call_logs' = finalize(call_logs, id, "failed", "setup_timeout", now)
    /\ UNCHANGED <<wrapperVars, uiVars, startVars, now, bridges>>

\* The orchestrator ends a call it holds InProgress (carrier Stop, fatal error,
\* hangup before any agent audio): it closes both sessions and finalizes.
CallEnd(id, st) ==
    /\ id \in bridges
    /\ bridges' = bridges \ {id}
    /\ call_logs' = finalize(call_logs, id, st, st, now)
    /\ UNCHANGED <<wrapperVars, uiVars, startVars, now>>

\* Half a second passes.
Tick ==
    /\ now < MaxTime
    /\ now' = now + 1
    /\ UNCHANGED <<wrapperVars, uiVars, startVars, call_logs, bridges>>

NextCalls ==
    \/ \E id \in CallIds, p \in Profiles : CallCreate(id, p)
    \/ \E id \in CallIds : CallRing(id)
    \/ \E id \in CallIds : CallStart(id)
    \/ \E id \in CallIds : CallSetupTimeout(id)
    \/ \E id \in CallIds, st \in Terminal : CallEnd(id, st)
    \/ \E u \in Profiles : EmergencyStop(u)
    \/ Tick

----------------------------------------------------------------------------
(* Start-up: start-ai-call-center.js and demo-server.js.                     *)

\* A check that takes only unset variables as missing.
isMissingUnsetOnly(v) == v = NoValue

\* !process.env[varName] || process.env[varName].includes('your_')
isMissing(v) == v = NoValue \/ includesYour(v)

\* requiredVars.filter(...)
missingVars(env) == {v \in RequiredVars : isMissing(env[v])}

\* The script is launched in some environment.
StartLaunch ==
    /\ script.pc = "idle"
    /\ \E f \in BOOLEAN, e \in [RequiredVars -> EnvValues] :
            environ' = [file |-> f, vars |-> e]
    /\ script' = [script EXCEPT !.pc = "checkEnvFile"]
    /\ UNCHANGED <<wrapperVars, uiVars, recordVars, demo>>

\* if (!fs.existsSync(backendEnvPath)) { ...; process.exit(1) }
StartCheckEnvFile ==
    /\ script.pc = "checkEnvFile"
    /\ script' = IF environ.file
                 THEN [script EXCEPT !.pc = "validate"]
                 ELSE [script EXCEPT !.pc = "exited", !.exit = "1"]
    /\ UNCHANGED <<wrapperVars, uiVars, recordVars, environ, demo>>

\* if (missingVars.length > 0) { ...; process.exit(1) }
StartValidate ==
    /\ script.pc = "validate"
    /\ script' = IF missingVars(environ.vars) # {}
                 THEN [script EXCEPT !.pc = "exited", !.exit = "1"]
                 ELSE [script EXCEPT !.pc = "writeFrontendEnv"]
    /\ UNCHANGED <<wrapperVars, uiVars, recordVars, environ, demo>>

\* fs.writeFileSync(frontendEnvPath, frontendEnv); then main() is called.
StartWriteFrontendEnv ==
    /\ script.pc = "writeFrontendEnv"
    /\ script' = [script EXCEPT !.pc = "main", !.envLocal = TRUE]
    /\ UNCHANGED <<wrapperVars, uiVars, recordVars, environ, demo>>

\* Phases 1 to 10 can end the script: the Node.js version check exits with 1,
\* a failing command is caught at the end of main(), which exits with 1.
CanFail(k) == k <= 10

\* main(): the next phase runs, or fails.
StartPhase ==
    /\ script.pc = "main"
    /\ script.phase < LastPhase
    /\ \E ok \in BOOLEAN :
            script' = IF ok \/ ~CanFail(script.phase + 1)
                      THEN [script EXCEPT !.phase = @ + 1]
                      ELSE [script EXCEPT !.phase = @ + 1, !.pc = "exited", !.exit = "1"]
    /\ UNCHANGED <<wrapperVars, uiVars, recordVars, environ, demo>>

\* main() returns after the deployment summary: the process ends with code 0.
StartFinish ==
    /\ script.pc = "main"
    /\ script.phase = LastPhase
    /\ script' = [script EXCEPT !.pc = "exited", !.exit = "0"]
    /\ UNCHANGED <<wrapperVars, uiVars, recordVars, environ, demo>>

\* The script installs no signal handler: SIGTERM or SIGINT kills it.
StartKilled ==
    /\ script.pc \notin {"idle", "exited"}
    /\ script' = [script EXCEPT !.pc = "exited", !.exit = "signal"]
    /\ UNCHANGED <<wrapperVars, uiVars, recordVars, environ, demo>>

\* demo-server.js: app.listen(PORT, ...).
DemoListen ==
    /\ demo.state = "stopped"
    /\ demo' = [demo EXCEPT !.state = "listening"]
    /\ UNCHANGED <<wrapperVars, uiVars, recordVars, environ, script>>

\* process.on('SIGTERM' / 'SIGINT', () => { ...; process.exit(0) })
DemoSignal(sig) ==
    /\ demo.state = "listening"
    /\ demo' = [state |-> "exited", signal |-> sig, exit |-> "0"]
    /\ UNCHANGED <<wrapperVars, uiVars, recordVars, environ, script>>

NextStart ==
    \/ StartLaunch
    \/ StartCheckEnvFile
    \/ StartValidate
    \/ StartWriteFrontendEnv
    \/ StartPhase
    \/ StartFinish
    \/ StartKilled
    \/ DemoListen
    \/ \E sig \in {"SIGTERM", "SIGINT"} : DemoSignal(sig)

----------------------------------------------------------------------------
(* RealtimeService (packages/ui/src/services/realtime.ts): one WebSocket    *)
(* shared by the pages of the dashboard, reconnection with a doubling       *)
(* delay, polling once the connection is given up, and the callbacks of     *)
(* the subscriptions.  The browser fires the events of a socket: error      *)
(* before close when a connection fails, close alone when an open           *)
(* connection ends, and close some time after close() was called on it.     *)

otherVars == <<wrapperVars, recordVars, startVars>>
connVars == <<wsConnection, isConnecting, reconnectAttempts, sockets, timers, pollers,
              scheduled, disconnected>>

maxReconnectAttempts == 5
reconnectDelay == 1000

\* Math.pow(2, n)
RECURSIVE Pow2(_)
Pow2(n) == IF n = 0 THEN 1 ELSE 2 * Pow2(n - 1)

\* WebSocket objects created, and subscribeToCallUpdates() calls made, so far.
nSockets == Cardinality({k \in Sockets : sockets[k] # "none"})
nSubs == Cardinality({k \in Subs : subState[k] # "none"})

\* A socket on which onopen or onmessage can still fire.
Live(k) == sockets[k] \in {"connecting", "open"}

\* initializeWebSocket() gets as far as `new WebSocket(wsUrl)` and is given one.
CreatesSocket == wsConnection = 0 /\ ~isConnecting /\ urlValid

\* initializeWebSocket(userId): nothing when a socket is held or being
\* connected; else a new socket, or the poller when the constructor throws.
initializeWebSocket ==
    IF wsConnection # 0 \/ isConnecting
    THEN UNCHANGED <<wsConnection, isConnecting, sockets, pollers>>
    ELSE IF urlValid
         THEN /\ wsConnection' = nSockets + 1
              /\ isConnecting' = TRUE
              /\ sockets' = [sockets EXCEPT ![nSockets + 1] = "connecting"]
              /\ pollers' = pollers
         ELSE /\ wsConnection' = 0
              /\ isConnecting' = FALSE
              /\ sockets' = sockets
              /\ pollers' = pollers + 1

attemptsExhaustedNever(n) == FALSE

\* attemptReconnect(): the test that gives the connection up.
attemptsExhausted(n) == n >= maxReconnectAttempts

\* attemptReconnect(userId): the poller once the attempts are used up, else
\* one more attempt after reconnectDelay * 2^(reconnectAttempts - 1) ms.
attemptReconnect ==
    IF attemptsExhausted(reconnectAttempts)
    THEN /\ pollers' = pollers + 1
         /\ UNCHANGED <<reconnectAttempts, timers, scheduled>>
    ELSE /\ reconnectAttempts' = reconnectAttempts + 1
         /\ timers' = Append(timers, reconnectDelay * Pow2((reconnectAttempts + 1) - 1))
         /\ scheduled' = scheduled + 1
         /\ pollers' = pollers

\* addSubscription(type, callback) on the callbacks of one type.
addSubscription(callbacks, cb) == callbacks \cup {cb}

removeSubscriptionAll(callbacks, cb) == {}

\* removeSubscription(type, callback) on the callbacks of one type; a type
\* left without callbacks has no entry in the map.
removeSubscription(callbacks, cb) == callbacks \ {cb}

\* WebSocket.close() on a socket.
closeSocket(st) == IF st \in {"connecting", "open"} THEN "closing" ELSE st

\* subscribeToCallUpdates(userId, onUpdate, onInsert, onDelete) with three
\* callbacks created for this call, as every page does.
Subscribe ==
    /\ nSubs < MaxSubs
    /\ CreatesSocket => nSockets < MaxSockets
    /\ initializeWebSocket
    /\ subscriptions' = [t \in NotificationTypes |-> addSubscription(subscriptions[t], nSubs + 1)]
    /\ subState' = [subState EXCEPT ![nSubs + 1] = "active"]
    /\ disconnected' = FALSE
    /\ UNCHANGED <<reconnectAttempts, timers, scheduled, notified, metrics, urlValid, otherVars>>

\* The unsubscribe() of the handle that subscribeToCallUpdates() returned.
Unsubscribe(s) ==
    /\ subState[s] \in {"active", "cleared"}
    /\ subscriptions' = [t \in NotificationTypes |-> removeSubscription(subscriptions[t], s)]
    /\ subState' = [subState EXCEPT ![s] = "unsubscribed"]
    /\ UNCHANGED <<connVars, notified, metrics, urlValid, otherVars>>

\* disconnect(), called when a page is unmounted.
Disconnect ==
    /\ IF wsConnection # 0
       THEN /\ sockets' = [sockets EXCEPT ![wsConnection] = closeSocket(@)]
            /\ wsConnection' = 0
       ELSE UNCHANGED <<sockets, wsConnection>>
    /\ subscriptions' = [t \in NotificationTypes |-> {}]
    /\ subState' = [k \in Subs |-> IF subState[k] = "active" THEN "cleared" ELSE subState[k]]
    /\ disconnected' = TRUE
    /\ UNCHANGED <<isConnecting, reconnectAttempts, timers, pollers, scheduled, notified,
                   metrics, urlValid, otherVars>>

\* onopen of socket k.
RtOnOpen(k) ==
    /\ sockets[k] = "connecting"
    /\ sockets' = [sockets EXCEPT ![k] = "open"]
    /\ reconnectAttempts' = 0
    /\ isConnecting' = FALSE
    /\ scheduled' = 0
    /\ UNCHANGED <<wsConnection, timers, pollers, disconnected, subscriptions, subState,
                   notified, metrics, urlValid, otherVars>>

\* onerror of socket k.
RtOnError(k) ==
    /\ sockets[k] \in {"connecting", "open", "closing"}
    /\ sockets' = [sockets EXCEPT ![k] = "errored"]
    /\ isConnecting' = FALSE
    /\ UNCHANGED <<wsConnection, reconnectAttempts, timers, pollers, scheduled, disconnected,
                   subscriptions, subState, notified, metrics, urlValid, otherVars>>

\* onclose of socket k.
RtOnClose(k) ==
    /\ sockets[k] \in {"open", "errored", "closing"}
    /\ sockets' = [sockets EXCEPT ![k] = "closed"]
    /\ wsConnection' = 0
    /\ isConnecting' = FALSE
    /\ attemptReconnect
    /\ UNCHANGED <<disconnected, subscriptions, subState, notified, metrics, urlValid, otherVars>>

\* The callback that attemptReconnect() handed to setTimeout runs.
TimerFire(i) ==
    /\ i \in DOMAIN timers
    /\ CreatesSocket => nSockets < MaxSockets
    /\ timers' = [j \in 1..(Len(timers) - 1) |-> IF j < i THEN timers[j] ELSE timers[j + 1]]
    /\ initializeWebSocket
    /\ UNCHANGED <<reconnectAttempts, scheduled, disconnected, subscriptions, subState,
                   notified, metrics, urlValid, otherVars>>

\* notifySubscribers(type, data): every callback registered for the type.
notifySubscribers(t) ==
    notified' = [count |-> notified.count + 1, type |-> t, to |-> subscriptions[t]]

\* onmessage of socket k with a call_update, call_insert or call_delete.
WsMessage(k, t) ==
    /\ sockets[k] = "open"
    /\ notified.count < MaxEvents
    /\ notifySubscribers(t)
    /\ UNCHANGED <<connVars, subscriptions, subState, metrics, urlValid, otherVars>>

\* pollForUpdates(userId), run by a poller, finds a recent call.
Poll ==
    /\ pollers > 0
    /\ notified.count < MaxEvents
    /\ notifySubscribers("call_updates")
    /\ UNCHANGED <<connVars, subscriptions, subState, metrics, urlValid, otherVars>>

\* The connection of RealtimeService.
NextRealtime ==
    \/ Subscribe
    \/ Disconnect
    \/ \E k \in Sockets : RtOnOpen(k)
    \/ \E k \in Sockets : RtOnError(k)
    \/ \E k \in Sockets : RtOnClose(k)
    \/ \E i \in 1..MaxSockets : TimerFire(i)

\* The subscriptions of RealtimeService, on sockets that stay up.
NextSubscriptions ==
    \/ Subscribe
    \/ \E s \in Subs : Unsubscribe(s)
    \/ Disconnect
    \/ \E k \in Sockets : RtOnOpen(k)
    \/ \E k \in Sockets, t \in NotificationTypes : WsMessage(k, t)
    \/ Poll

----------------------------------------------------------------------------
(* DashboardPage (packages/ui/src/pages/DashboardPage.tsx): the metrics     *)
(* state and the three callbacks it hands to subscribeToCallUpdates().  The *)
(* WebSocket, the database channel and the pollers all call them.           *)

dashOther == <<wsConnection, isConnecting, reconnectAttempts, subscriptions, sockets, timers,
               pollers, urlValid, scheduled, disconnected, subState, notified, otherVars>>

\* The call rows a notification can carry.
DashStatuses == {"in_progress", "completed"}
DashCalls == [id : CallIds, status : DashStatuses]

\* Sequences of distinct calls, of length at most n, drawn from S.
RECURSIVE DistinctSeqs(_, _)
DistinctSeqs(S, n) ==
    IF n = 0 \/ S = {} THEN {<<>>}
    ELSE {<<>>} \cup UNION {{<<c>> \o rest : rest \in DistinctSeqs({d \in S : d.id # c.id}, n - 1)} : c \in S}

\* What getActiveCalls() can return: the in_progress rows, one per call.
ActiveSnapshots == DistinctSeqs({c \in DashCalls : c.status = "in_progress"}, MaxCalls)

\* Array.prototype.filter(call => call.id !== id)
withoutId(list, id) == SelectSeq(list, LAMBDA c : c.id # id)

\* Array.prototype.findIndex(call => call.id === id): 0 when there is none.
findIndex(list, id) ==
    IF \E i \in DOMAIN list : list[i].id = id
    THEN CHOOSE i \in DOMAIN list : list[i].id = id /\ \A j \in 1..(i - 1) : list[j].id # id
    ELSE 0

\* Array.prototype.slice(0, n)
slice0(list, n) == SubSeq(list, 1, IF Len(list) < n THEN Len(list) ELSE n)

\* The onUpdate callback applied to the metrics.
onUpdate(prev, call) ==
    LET updatedRecentCalls == [i \in DOMAIN prev.recentCalls |->
                                  IF prev.recentCalls[i].id = call.id THEN call
                                  ELSE prev.recentCalls[i]]
        existingIndex == findIndex(prev.activeCallsList, call.id)
        updatedActiveCalls ==
            IF call.status = "in_progress"
            THEN IF existingIndex > 0
                 THEN [prev.activeCallsList EXCEPT ![existingIndex] = call]
                 ELSE Append(prev.activeCallsList, call)
            ELSE withoutId(prev.activeCallsList, call.id)
    IN  [prev EXCEPT !.recentCalls = updatedRecentCalls,
                     !.activeCallsList = updatedActiveCalls,
                     !.activeCalls = Len(updatedActiveCalls)]

\* The onInsert callback applied to the metrics.
onInsert(prev, call) ==
    LET updatedRecentCalls == <<call>> \o slice0(prev.recentCalls, 9)
        updatedActiveCalls ==
            IF call.status = "in_progress"
            THEN Append(prev.activeCallsList, call)
            ELSE prev.activeCallsList
    IN  [prev EXCEPT !.recentCalls = updatedRecentCalls,
                     !.activeCallsList = updatedActiveCalls,
                     !.activeCalls = Len(updatedActiveCalls)]

\* The onDelete callback applied to the metrics.
onDelete(prev, id) ==
    [prev EXCEPT !.recentCalls = withoutId(prev.recentCalls, id),
                 !.activeCallsList = withoutId(prev.activeCallsList, id),
                 !.activeCalls = Len(withoutId(prev.activeCallsList, id))]

\* loadDashboardData(): setMetrics(await getDashboardMetrics(user.id)).
LoadDashboardData(active) ==
    /\ ~metrics.loaded
    /\ metrics' = [loaded |-> TRUE, activeCalls |-> Len(active), activeCallsList |-> active,
                   recentCalls |-> active]
    /\ UNCHANGED dashOther

\* refreshDashboardData(): the lists of getDashboardUpdates() replace the held ones.
RefreshDashboardData(active) ==
    /\ metrics.loaded
    /\ metrics' = [metrics EXCEPT !.activeCalls = Len(active), !.activeCallsList = active,
                                  !.recentCalls = active]
    /\ UNCHANGED dashOther

\* The lists have room for one more entry.
HasRoom == Len(metrics.activeCallsList) < MaxNotes /\ Len(metrics.recentCalls) < MaxNotes

\* setMetrics(prev => ...) of a callback: nothing while the metrics are null.
DashOnUpdate(call) ==
    /\ HasRoom
    /\ metrics' = IF metrics.loaded THEN onUpdate(metrics, call) ELSE metrics
    /\ UNCHANGED dashOther

DashOnInsert(call) ==
    /\ HasRoom
    /\ metrics' = IF metrics.loaded THEN onInsert(metrics, call) ELSE metrics
    /\ UNCHANGED dashOther

DashOnDelete(id) ==
    /\ metrics' = IF metrics.loaded THEN onDelete(metrics, id) ELSE metrics
    /\ UNCHANGED dashOther

NextDashboard ==
    \/ \E active \in ActiveSnapshots : LoadDashboardData(active)
    \/ \E active \in ActiveSnapshots : RefreshDashboardData(active)
    \/ \E call \in DashCalls : DashOnUpdate(call)
    \/ \E call \in DashCalls : DashOnInsert(call)
    \/ \E id \in CallIds : DashOnDelete(id)

\* The connection life cycle, common to both specifications.
Lifecycle ==
    \/ Connect
    \/ \E c \in Conns : ConnectResolve(c)
    \/ \E c \in Conns : ConnectReject(c)
    \/ \E c \in Conns : OnOpen(c)
    \/ \E c \in Conns : OnError(c)
    \/ \E c \in Conns, r \in CloseReasons : OnClose(c, r)
    \/ \E c \in Conns : LoopStep(c)
    \/ Close

\* The caller sends; the model sends control messages.
NextSend ==
    \/ Lifecycle
    \/ \E c \in Conns, k \in ControlKinds : OnMessage(c, k)
    \/ SendAudio
    \/ SendFunctionResponse

\* The model sends content.
NextRecv ==
    \/ Lifecycle
    \/ \E c \in Conns, k \in ContentKinds : OnMessage(c, k)

\* connect() with any configuration: the life cycle without messages or sends.
NextConfig ==
    \/ Connect
    \/ \E c \in Conns : ConnectResolve(c)
    \/ \E c \in Conns : ConnectReject(c)
    \/ \E c \in Conns : OnOpen(c)
    \/ \E c \in Conns : OnError(c)
    \/ \E c \in Conns, r \in CloseReasons : OnClose(c, r)
    \/ Close

\* The call records, and the scripts, next to a wrapper that is left alone.
InitCalls == Init /\ impl = "server" /\ ~consumer

\* RealtimeService in a page whose origin accepts the WebSocket URL, or does
\* not, next to a wrapper that is left alone.
InitRealtime ==
    Construct(ExampleOptions) /\ impl = "server" /\ ~consumer /\ urlValid \in BOOLEAN

\* The server wrapper, constructed with an onServerContent, and all four of
\* its sends.
InitServer == Init /\ impl = "server" /\ consumer
NextServer ==
    \/ NextConfig
    \/ \E c \in Conns, k \in ControlKinds : OnMessage(c, k)
    \/ SendText
    \/ SendAudio
    \/ SendFunctionResponse
    \/ SendAudioStreamEnd

SpecSend == Init /\ [][NextSend]_vars
SpecServer == InitServer /\ [][NextServer]_vars
SpecRecv == Init /\ [][NextRecv]_vars
SpecConfig == InitConfig /\ [][NextConfig]_vars
SpecCalls == InitCalls /\ [][NextCalls]_vars
SpecStart == InitCalls /\ [][NextStart]_vars
SpecRealtime == InitRealtime /\ [][NextRealtime]_vars
SpecSubscriptions == InitRealtime /\ [][NextSubscriptions]_vars
SpecDashboard == InitCalls /\ [][NextDashboard]_vars

\* The conversation loop polls on a timer: once a message is queued it is taken.
FairSpecSend == SpecSend /\ WF_vars(\E c \in Conns : LoopStep(c))
FairSpecRecv == SpecRecv /\ WF_vars(\E c \in Conns : LoopStep(c))

----------------------------------------------------------------------------
(* Properties.                                                              *)

\* The audio chunks the transport was handed, in order.
RECURSIVE AudioOf(_)
AudioOf(w) ==
    IF w = <<>> THEN <<>>
    ELSE IF Head(w).kind = "audio" THEN <<Head(w).val>> \o AudioOf(Tail(w))
         ELSE AudioOf(Tail(w))

\* The audio chunks whose send call returned true, in call order.
RECURSIVE AcceptedAudio(_)
AcceptedAudio(cs) ==
    IF cs = <<>> THEN <<>>
    ELSE IF Head(cs).op = "audio" /\ Head(cs).ret THEN <<Head(cs).arg>> \o AcceptedAudio(Tail(cs))
         ELSE AcceptedAudio(Tail(cs))

\* The last connect() call has had its onopen callback run.
LatestOpened == nConn > 0 /\ nConn \in openFired

\* This step is a sendAudio / sendRealtimeInput call of the caller.
AudioCallStep == Len(calls') = Len(calls) + 1 /\ calls'[Len(calls')].op = "audio"

\* A GoAway has been received and no later connection has opened since.
Draining ==
    \E j \in DOMAIN received :
        /\ received[j].kind = "goAway"
        /\ ~\E c \in openFired : c > received[j].conn

\* The payloads on the wire other than the configuration of connect().
ContentOnWire == {i \in DOMAIN wire : wire[i].kind # "config"}

\* C1: the wrapper sends no content of its own on connect: whatever the model
\* has been sent besides the configuration was sent by an accepted send call of
\* the caller.
C1_NoContentOnConnect ==
    Cardinality(ContentOnWire) = Cardinality({i \in DOMAIN calls : calls[i].ret})

\* C2: audio that was buffered in responseQueue when an interruption arrived is
\* dropped: the conversation loop never delivers it to onServerContent.
C2_InterruptedDropsBuffered ==
    \A i \in DOMAIN upstream :
        upstream[i].via = "loop" => upstream[i].id \notin staleAudio

\* C3: every interruption received is passed to onServerContent exactly once
\* when a consumer is registered (and never without one).
C3_InterruptedEmittedOnce ==
    \A j \in DOMAIN received :
        received[j].kind = "interrupted" =>
            Cardinality({i \in DOMAIN upstream :
                            /\ upstream[i].kind = "interrupted"
                            /\ upstream[i].id = received[j].id})
                = (IF consumer THEN 1 ELSE 0)

\* C3 witness: a queue wrapper with a consumer has received an interruption and
\* its conversation loop has gone through the whole turn holding it.
C3_Witness ==
    /\ impl = "queue"
    /\ consumer
    /\ \E j \in DOMAIN received : received[j].kind = "interrupted"
    /\ \E c \in Conns : loops[c].pc = "done"

\* C4: an audio send made before the open callback of the connection has run
\* returns false and hands nothing to the transport.
C4_NoAudioBeforeOpen ==
    [][(AudioCallStep /\ ~LatestOpened) =>
            (~calls'[Len(calls')].ret /\ wire' = wire)]_vars

\* C5: every tool response sent carries the id of a tool call received from the
\* model, and no id is answered twice.
C5_ToolResponseCarriesId ==
    \A i \in DOMAIN wire :
        wire[i].kind = "functionResponse" =>
            /\ \E j \in DOMAIN received :
                    received[j].kind = "toolCall" /\ received[j].id = wire[i].id
            /\ \A k \in DOMAIN wire :
                    (wire[k].kind = "functionResponse" /\ wire[k].id = wire[i].id) => k = i

\* C6: the audio chunks handed to the transport are exactly the chunks whose
\* send call returned true, in call order.
C6_AudioInCallOrder == AudioOf(wire) = AcceptedAudio(calls)

\* C6 witness: two chunks were accepted one after the other.
C6_Witness == AcceptedAudio(calls) = <<1, 2>>

\* C7: audio reaches onServerContent in the order it was received from the
\* model, whichever path delivers it.
C7_UpstreamFifo ==
    \A i, j \in DOMAIN upstream :
        (i < j /\ upstream[i].kind = "audio" /\ upstream[j].kind = "audio")
            => upstream[i].id <= upstream[j].id

\* C8: after an unsolicited transient close during an active call a new
\* connection attempt is eventually made.
C8_ReconnectsAfterTransientClose ==
    (lost.reason = "transient" /\ ~callClosed) ~> (nConn > lost.at \/ callClosed)

\* C9: while draining after a GoAway, audio sends are refused.
C9_DrainingRefusesAudio ==
    [][(AudioCallStep /\ Draining) => ~calls'[Len(calls')].ret]_vars

\* A connect() at call start (no connect() has succeeded before it) has failed.
FailedAtStart ==
    \E c \in Conns :
        /\ connectRet[c] \in {"false", "throw"}
        /\ \A d \in Conns : connectRet[d] # "ok"

\* C10: a connect() that fails at call start made one attempt, reported the
\* failure to its caller and leaves no session: every later send returns false
\* and hands nothing to the transport.
C10_SetupFailureFatal ==
    /\ [](\A c \in Conns :
            connectRet[c] \in {"false", "throw"} =>
                Cardinality({i \in DOMAIN wire :
                                wire[i].kind = "config" /\ wire[i].sess = c}) = 1)
    /\ [](FailedAtStart => session = 0)
    /\ [][(FailedAtStart /\ Len(calls') = Len(calls) + 1) =>
                (~calls'[Len(calls')].ret /\ wire' = wire)]_vars

\* C10 witness: after a failed connect() at call start a send was made.
C10_Witness ==
    /\ FailedAtStart
    /\ calls # <<>>
    /\ wire = <<Payload(1, "config", 0)>>

----------------------------------------------------------------------------
(* Properties: configuration.                                               *)

\* The eight voices an agent configuration may name.
AllowedVoices == {"Puck", "Charon", "Kore", "Fenrir", "Aoede", "Leda", "Orus", "Zephyr"}

\* The members of the sensitivity enums: low, medium, high.
AllowedStart ==
    {"StartSensitivity.START_SENSITIVITY_LOW", "StartSensitivity.START_SENSITIVITY_MEDIUM",
     "StartSensitivity.START_SENSITIVITY_HIGH"}
AllowedEnd ==
    {"EndSensitivity.END_SENSITIVITY_LOW", "EndSensitivity.END_SENSITIVITY_MEDIUM",
     "EndSensitivity.END_SENSITIVITY_HIGH"}

\* connect() has handed a configuration to the transport on connection c.
Opened(c) == ws[c] # "none"

\* C11: connect() never opens a session whose model is outside the allowed
\* models, whose voice is outside the allowed voices or whose start/end
\* sensitivity is outside low/medium/high (a voice or sensitivity that is left
\* out altogether is not counted against the configuration).
C11_ConfigValidatedBeforeOpen ==
    \A c \in Conns :
        Opened(c) =>
            /\ connectArgs[c].model \in AllowedModels
            /\ connectArgs[c].voice \in AllowedVoices \cup {NoValue}
            /\ connectArgs[c].start \in AllowedStart \cup {NoValue}
            /\ connectArgs[c].end \in AllowedEnd \cup {NoValue}

\* C17: the model a session is opened with is the selected model, and the
\* documented default when no model was selected.
C17_DefaultModelWhenUnset ==
    \A c \in Conns :
        Opened(c) =>
            connectArgs[c].model =
                (IF options.model = NoValue THEN DocumentedDefaultModel ELSE options.model)

----------------------------------------------------------------------------
(* Properties: call records.                                                *)

\* This step is an emergency stop of tenant u that finds a call in progress.
EmergencyStopStep(u) ==
    /\ \E id \in CallIds :
            call_logs[id].profile_id = u /\ call_logs[id].status = "in_progress"
    /\ call_logs' = emergencyStopAllCalls(call_logs, u, now)

\* C12: an emergency stop for a tenant makes every in-progress call of the
\* tenant failed with the emergency-stop outcome and closes the model session
\* and the carrier session of each such call.
C12_EmergencyStopClosesSessions ==
    [][\A u \in Profiles :
          EmergencyStopStep(u) =>
              \A id \in CallIds :
                  (call_logs[id].profile_id = u /\ call_logs[id].status = "in_progress") =>
                      /\ call_logs'[id].status = "failed"
                      /\ call_logs'[id].outcome = "Emergency stop"
                      /\ id \notin bridges']_vars

\* C13: no operation on call records moves a call backward in
\* Pending -> Ringing -> InProgress -> terminal, and a terminal call keeps its
\* status.
C13_StatusMonotone ==
    [][\A id \in CallIds :
          /\ Rank(call_logs'[id].status) >= Rank(call_logs[id].status)
          /\ call_logs[id].status \in Terminal =>
                call_logs'[id].status = call_logs[id].status]_vars

\* C13 witness: a call stopped by an emergency stop was afterwards ended by
\* the orchestrator, and a later emergency stop of its tenant found another
\* call in progress.
C13_Witness ==
    \E id, j \in CallIds :
        /\ id # j
        /\ call_logs[id].outcome = "Emergency stop"
        /\ id \notin bridges
        /\ call_logs[j].outcome = "Emergency stop"
        /\ call_logs[j].profile_id = call_logs[id].profile_id
        /\ call_logs[j].ended_at > call_logs[id].ended_at

\* C14: the end instant of a call record is set exactly when its status is
\* terminal.
C14_EndedAtIffTerminal ==
    \A id \in CallIds :
        (call_logs[id].ended_at # -1) <=> (call_logs[id].status \in Terminal)

\* C14 witness: one call was made terminal by an emergency stop and another
\* by the orchestrator.
C14_Witness ==
    \E id, j \in CallIds :
        /\ call_logs[id].outcome = "Emergency stop"
        /\ call_logs[j].status = "completed"

\* C15: a terminal call ends no earlier than it started and its
\* duration_seconds is the rounded difference of the two instants.
C15_DurationIsRoundedSpan ==
    \A id \in CallIds :
        call_logs[id].status \in Terminal =>
            /\ call_logs[id].ended_at >= call_logs[id].started_at
            /\ call_logs[id].duration_seconds =
                    RoundSeconds(call_logs[id].ended_at - call_logs[id].started_at)

----------------------------------------------------------------------------
(* Properties: start-up.                                                    *)

\* The root .env file is absent, or a required variable is unset or holds the
\* placeholder of the .env sample.
EnvMissing ==
    \/ ~environ.file
    \/ \E v \in RequiredVars : environ.vars[v] = NoValue \/ includesYour(environ.vars[v])

----------------------------------------------------------------------------
(* Properties: the model-to-caller path of the queue wrapper.               *)

\* The invocations of onServerContent that carry the audio of message id.
AudioDeliveries(id) ==
    {i \in DOMAIN upstream : upstream[i].kind = "audio" /\ upstream[i].id = id}

\* C18: with a consumer registered, every audio message received from the
\* model is handed to onServerContent exactly once, processMessage and the
\* conversation loop taken together.
C18_AudioDeliveredOnce ==
    consumer =>
        \A j \in DOMAIN received :
            received[j].kind = "audio" =>
                Cardinality(AudioDeliveries(received[j].id)) = 1

\* C19: responseQueue never holds more than the configured bound of entries.
C19_ResponseQueueBounded == Len(responseQueue) <= QueueBound

\* C20: once close() has been called, every conversation loop eventually
\* returns, whether or not a turnComplete arrives.
C20_LoopEndsAfterClose ==
    callClosed ~> (\A c \in Conns : loops[c].pc # "waiting")

----------------------------------------------------------------------------
(* Properties: the session wrapper around close() and onReady.              *)

\* close() has been called and no connection is open or being opened.
SessionClosed ==
    /\ callClosed
    /\ \A c \in Conns : ws[c] \in {"none", "closing", "closed"}

\* C21: once close() has closed the session, onServerContent is not invoked
\* any more, whatever is still buffered in responseQueue.
C21_NoDeliveryAfterClose ==
    [][SessionClosed => upstream' = upstream]_vars

\* The send guard of the wrapper, on the state a step leads to.
ReadyAfterStep ==
    IF impl = "server" THEN serverReady(session') ELSE queueReady(session', isConnected')

\* C22: when onopen runs (and calls onReady), the wrapper accepts a send:
\* its guard lets the send through to the session.
C22_ReadyMeansUsable ==
    [][\A c \in Conns : (c \notin openFired /\ c \in openFired') => ReadyAfterStep]_vars

\* This step is a send call of the caller.
SendCallStep == Len(calls') = Len(calls) + 1

\* This step is a close() call on the server wrapper.
ServerCloseStep == impl = "server" /\ ~callClosed /\ callClosed'

\* C23: the server wrapper holds no session after any close(), and while it
\* holds none every send returns false and hands nothing to the transport.
C23_NoSessionNoSend ==
    /\ [][(impl = "server" /\ session = 0 /\ SendCallStep) =>
                (~calls'[Len(calls')].ret /\ wire' = wire)]_vars
    /\ [][ServerCloseStep => session' = 0]_vars

\* C23 witness: the server wrapper held a session, close() was called, and a
\* sendText and a sendAudioStreamEnd were made afterwards on no session.
C23_Witness ==
    /\ impl = "server"
    /\ callClosed
    /\ session = 0
    /\ \E c \in Conns : connectRet[c] = "ok" /\ ws[c] \in {"closing", "closed", "open"}
    /\ Len(calls) = 2
    /\ calls[1].op = "text" /\ ~calls[1].ret
    /\ calls[2].op = "audioStreamEnd" /\ ~calls[2].ret
    /\ \A i \in DOMAIN wire : wire[i].kind = "config"

----------------------------------------------------------------------------
\* C24: RealtimeService never has two WebSocket connections open or
\* connecting at the same time.
C24_AtMostOneLiveSocket == Cardinality({k \in Sockets : Live(k)}) <= 1

\* A step of a subscribe call.
SubscribeStep == nSubs' # nSubs

\* C25: after disconnect(), and until the next subscribe call, no reconnect
\* is scheduled and no WebSocket is created.
C25_NoReconnectAfterDisconnect ==
    [][(disconnected /\ ~SubscribeStep) =>
          (Len(timers') <= Len(timers) /\ nSockets' = nSockets)]_vars

\* A step in which onclose of some socket runs.
CloseStep == \E k \in Sockets : sockets[k] # "closed" /\ sockets'[k] = "closed"

\* C26: at most 5 reconnects are scheduled without a successful open in
\* between, the k-th of them 1000 * 2^(k-1) ms ahead; a successful open sets
\* the attempt counter to 0; a close after the 5th starts polling and
\* schedules nothing.
C26_ReconnectBounded ==
    /\ [][scheduled' <= 5]_vars
    /\ [][Len(timers') > Len(timers) =>
             timers'[Len(timers')] = 1000 * Pow2(scheduled' - 1)]_vars
    /\ [][(\E k \in Sockets : sockets[k] = "connecting" /\ sockets'[k] = "open") =>
             reconnectAttempts' = 0]_vars
    /\ [][(scheduled = 5 /\ CloseStep) =>
             (pollers' = pollers + 1 /\ timers' = timers)]_vars

\* Five reconnects were scheduled, each has run and failed, and the service
\* has fallen back to polling.
C26_Witness ==
    /\ urlValid
    /\ scheduled = 5
    /\ timers = <<>>
    /\ pollers = 1
    /\ \A k \in Sockets : sockets[k] = "closed"

\* C27: at most one poller is running.
C27_AtMostOnePoller == pollers <= 1

\* A step in which a notification is dispatched.
NotifyStep == notified'.count # notified.count

\* C28: a notification reaches no callback of a subscription whose
\* unsubscribe() has returned and reaches every subscription that is still
\* active; unsubscribe() leaves the callbacks of the other subscriptions
\* registered.
C28_UnsubscribeIsExact ==
    /\ [][NotifyStep =>
             \A s \in Subs : /\ subState[s] = "unsubscribed" => s \notin notified'.to
                             /\ subState[s] = "active" => s \in notified'.to]_vars
    /\ [][\A s \in Subs :
             (subState[s] # "unsubscribed" /\ subState'[s] = "unsubscribed") =>
                \A t \in NotificationTypes, o \in Subs \ {s} :
                    (o \in subscriptions[t]) <=> (o \in subscriptions'[t])]_vars

\* On the one socket ever created and still held, a notification went to the
\* second subscription alone after the first one was unsubscribed.
C28_Witness ==
    /\ nSockets = 1
    /\ wsConnection = 1
    /\ subState[1] = "unsubscribed"
    /\ subState[2] = "active"
    /\ notified.count > 0
    /\ notified.to = {2}

\* C29: the dashboard's active-call list holds no call id twice, and
\* activeCalls is the length of the list.
C29_ActiveListDistinct ==
    metrics.loaded =>
        /\ \A i, j \in DOMAIN metrics.activeCallsList :
               metrics.activeCallsList[i].id = metrics.activeCallsList[j].id => i = j
        /\ metrics.activeCalls = Len(metrics.activeCallsList)
====
